---- MODULE Spec2Model ----
(***************************************************************************)
(* Transaction submission pipeline of cw-orch-daemon: Sender::commit_tx_any *)
(* (height query, body, broadcast with retry strategies, find_tx), the     *)
(* daemon operations built on it (upload with its code-info loop and       *)
(* wait_blocks), the synchronous Daemon's sender lock, and the pure gas    *)
(* buffering function get_fee_from_gas.                                    *)
(*                                                                         *)
(* The node is the environment: it answers every query, may fail any call, *)
(* checks the account sequence of a broadcast transaction, and includes    *)
(* accepted transactions in later blocks.                                  *)
(***************************************************************************)
EXTENDS Integers, Sequences, FiniteSets, TLC

VARIABLES
    active,     \* the callers that take part in this run
    pc,         \* pc[p]: the await point caller p is suspended at
    st,         \* st[p]: the locals of caller p's operation
    writer,     \* holder of the write guard of the Daemon's sender lock, 0 = free
    height,     \* node: latest block height
    chainSeq,   \* node: authoritative sequence of the signing account
    txs,        \* node: transactions accepted by BroadcastTx, indexed by hash
    budget,     \* scripted rejections and node faults the node may still produce
    ext,        \* transactions other clients have submitted with the same key
    signed,     \* history: <<caller, sequence>> of every transaction signed for broadcast
    modes,      \* history: broadcast modes of every BroadcastTxRequest sent
    gasIn,      \* get_fee_from_gas: the raw estimate
    envGasBuffer, \* CwOrchEnvVars.gas_buffer in tenths, 0 = not set
    envMinGas,  \* CwOrchEnvVars.min_gas, 0 = not set
    gasOut,     \* get_fee_from_gas: the returned gas, -1 = not computed yet
    feeTokens,  \* chain_data.fees.fee_tokens, prices in units of 0.00001
    feeOut,     \* the fee coin made of the returned amount, amount -1 = not computed yet
    envDisableBalance, \* CwOrchEnvVars.disable_wallet_balance_assertion
    envDisableManual,  \* CwOrchEnvVars.disable_manual_interaction
    authzGranter,      \* SenderOptions.authz_granter, "" = None
    feeGranter,        \* SenderOptions.fee_granter, "" = None
    balance,    \* node: the signer's balance in the fee denom
    lastHeight, \* node: the height after which this run produces no block
    account,    \* node: the QueryAccountResponse, by what each decoder makes of it
    accountOut, \* base_account: its result, kind "none" = not called yet
    coinsIn,    \* parse_cw_coins: the cosmwasm_std coins handed in
    coinsOut,   \* its result and the function that made it, by "none" = not called yet
    signKey,    \* Sender::sign: the held private key
    signDoc,    \* the SignDoc
    ethFeature, \* whether the crate was built with the feature "eth"
    signOut     \* the outcome of sign, kind "none" = not called yet

vars == <<active, pc, st, writer, height, chainSeq, txs, budget, ext, signed,
          modes, gasIn, envGasBuffer, envMinGas, gasOut, feeTokens, feeOut,
          envDisableBalance, envDisableManual, authzGranter, feeGranter,
          balance, lastHeight, account, accountOut, coinsIn, coinsOut,
          signKey, signDoc, ethFeature, signOut>>

pipeVars == <<active, pc, st, writer, height, chainSeq, txs, budget, ext, signed, modes>>
cfgVars == <<envDisableBalance, envDisableManual, authzGranter, feeGranter,
             balance, lastHeight>>
pureVars == <<coinsIn, coinsOut, signKey, signDoc, ethFeature, signOut>>
accVars == <<account, accountOut, pureVars>>
gasVars == <<gasIn, envGasBuffer, envMinGas, gasOut, feeTokens, feeOut, cfgVars,
             accVars>>

----------------------------------------------------------------------------
(* Bounds of the model *)

MaxHeight == 3
MaxScripted == 3
MaxExternal == 1
MaxReads == 2
MaxRounds == 3
MaxAmount == 2
MaxCoins == 2
SmallGasMax == 60
GasWindow == 40

(* Program constants *)

BUFFER_THRESHOLD == 200000
TIMEOUT_LOOKAHEAD == 10
InitSeq == 4

(* Configuration the missing tx_broadcaster / Node::find_tx code carries *)

MaxSeqRetries == 2

MaxFeeRetriesTwice == 1 + 1

\* sender.rs:306: "we retry once"
MaxFeeRetries == 1
MaxFindTxPolls == 3

\* Two callers are enough for every interleaving of two submissions
Procs == {1, 2}
NoProc == 0

Ops == {"commit_tx", "commit_any", "upload"}

\* What a rejection log contains: the account-sequence pattern, the
\* insufficient-fee pattern, both, or neither.
LogKinds == {"seq", "fee", "both", "other"}

HasSeqPattern(log) == log \in {"seq", "both"}
HasFeePattern(log) == log \in {"fee", "both"}

RejectCode(log) == IF log = "seq" THEN 32 ELSE IF log = "fee" THEN 13
                   ELSE IF log = "both" THEN 32 ELSE 5

\* Result codes of a transaction whose execution failed on chain
FailCodes == {5}

NoRes == [kind |-> "none", code |-> 0, log |-> "none", hash |-> 0, height |-> 0]

Ok(h, ht, c) == [kind |-> "ok", code |-> c, log |-> "none", hash |-> h, height |-> ht]

Err(k, c, l) == [kind |-> k, code |-> c, log |-> l, hash |-> 0, height |-> 0]

NoFee == [denom |-> "", amount |-> -1]

\* A message of the caller: an Any with a type_url and an encoded value
Msg(payload) ==
    [type_url |-> "/cosmwasm.wasm.v1.MsgExecuteContract", grantee |-> "",
     msgs |-> <<>>, value |-> payload, sender |-> ""]

DefaultMsgs == <<Msg("a")>>

NoGranter == ""

InitSt(op) ==
    [op |-> op, timeout |-> 0, seq |-> 0, bcasts |-> 0, seqRetries |-> 0,
     feeRetries |-> 0, log |-> "none", applied |-> "none", hash |-> 0,
     polls |-> 0, failed |-> "none", last |-> 0, end |-> 0, res |-> NoRes,
     \* history: the node's sequence when the account was last queried, the
     \* rejections the insufficient-fee strategy was applied to, and whether
     \* find_tx has seen the transaction in a block
     auth |-> 0, feeRejects |-> 0, found |-> FALSE,
     \* the caller's messages, the messages of the body built from them, and
     \* history: the messages of the body last handed to the node's simulation
     msgs |-> DefaultMsgs, body |-> <<>>, simBody |-> <<>>,
     \* simulate: the pair it computes; assert_wallet_balance: the balance
     \* last queried, and history: the queries made and the lines read
     gas |-> 0, fee |-> NoFee, current |-> 0, queries |-> 0, reads |-> 0,
     \* history: the last line read, and the lines read that confirmed
     line |-> <<>>, confirms |-> 0,
     \* history: the height the body's timeout was computed from, and whether
     \* a retry has broadcast the body after the chain passed its timeout
     builtAt |-> 0, resentExpired |-> FALSE,
     \* wait_blocks: its argument, and history: the height read at entry and
     \* the sleeps and height queries made since, in their order
     amount |-> 1, entry |-> 0, waits |-> <<>>,
     \* upload, history: the code-info queries made, those that failed, and
     \* the calls of next_block that returned
     codeQueries |-> 0, codeFails |-> 0, nextBlocks |-> 0,
     \* history: the options of the sender when the operation was entered
     entrySender |-> [authz_granter |-> NoGranter, fee_granter |-> NoGranter],
     \* what the operation of the synchronous Daemon returns
     out |-> NoRes]

----------------------------------------------------------------------------
(* Sender::commit_tx_any and the pieces it calls *)

BroadcastModeAsync == "Async"

\* sender.rs:372, the mode of every BroadcastTxRequest
BroadcastMode == "Sync"

\* sender.rs:308-311, the strategies in the order add_strategy registers them
Strategies == <<"insufficient_fee", "account_sequence">>

StrategyMatches(s, log) ==
    \/ s = "insufficient_fee" /\ HasFeePattern(log)
    \/ s = "account_sequence" /\ HasSeqPattern(log)

\* The first registered strategy whose condition matches the log, "none" if
\* no strategy matches: classification stops at the first match.
FirstMatch(log) ==
    IF \E i \in 1..Len(Strategies) : StrategyMatches(Strategies[i], log)
    THEN Strategies[CHOOSE i \in 1..Len(Strategies) :
            /\ StrategyMatches(Strategies[i], log)
            /\ \A j \in 1..(i - 1) : ~StrategyMatches(Strategies[j], log)]
    ELSE "none"

CanRetry(s, loc) ==
    \/ s = "insufficient_fee" /\ loc.feeRetries < MaxFeeRetries
    \/ s = "account_sequence" /\ loc.seqRetries < MaxSeqRetries

\* The sequence of a previous attempt is kept when there is one
CachedAccountSequence(p) == IF st[p].seq # 0 THEN st[p].seq ELSE chainSeq

\* sender.rs:336-362 base_account: the sequence comes from the node's
\* account record on every call, nothing is cached in the Sender
AccountSequence(p) == chainSeq

\* The error of the broadcaster is dropped and find_tx is called all the same
BroadcastErrIgnored == "find_tx"

\* sender.rs:312, the `?` after broadcast: a failed broadcast returns at once
AfterBroadcastErr == "done"


\* A nonzero result code of the included transaction becomes an error
AssertCodeIsZero(h) ==
    IF txs[h].code = 0 THEN Ok(h, txs[h].height, 0)
    ELSE Err("tx_failed", txs[h].code, "raw_log")

\* sender.rs:318, assert_broadcast_code_cosm_response applied to the response
\* find_tx found: the confirmation is returned with the result code it carries
AssertBroadcastCodeCosmResponse(h) ==
    Ok(h, txs[h].height, txs[h].code)

\* A failed code-info query is returned to the caller of upload
CodeQueryErrReturns == "done"

\* A failed code-info query is repeated at once
CodeQueryErrRetriesAtOnce == "code_query"

\* core.rs:333, upload's loop condition: a failed code-info query is not
\* returned, the loop body (next_block) runs and the query is repeated
AfterCodeQueryErr == "wb_height"

HoldsWrite(p) == writer = p

\* The write guard is handed out whoever holds it
WriteGuardIgnored == TRUE

\* sync/core.rs:64-67, sender_mut(): the write guard of the sender's lock is
\* handed out when no other guard is held
WriteGuardFree == writer = NoProc

\* The operations of DaemonAsync the synchronous Daemon passes on
DaemonOps == {"upload", "execute", "instantiate", "instantiate2", "migrate"}

WaitOps == {"wait_blocks", "wait_seconds", "next_block"}

\* The wait operations answer Ok whatever the future returned
BlockOnDropsWaitErr(op, r) == IF op \in WaitOps THEN Ok(0, 0, 0) ELSE r

\* sync/core.rs:151-204, 232-248: rt_handle.block_on(future) is the
\* future's output; the wait operations apply `?` to it and answer Ok(())
BlockOn(op, r) ==
    IF op \in WaitOps
    THEN IF r.kind = "ok" THEN Ok(0, 0, 0) ELSE r
    ELSE r

\* The operation of caller p ends with result r; a write guard taken by
\* commit_any is dropped when its statement ends.
Return(p, loc, r) ==
    /\ pc' = [pc EXCEPT ![p] = "done"]
    /\ st' = [st EXCEPT ![p] = [loc EXCEPT !.res = r,
                                           !.out = BlockOn(loc.op, r)]]
    /\ writer' = IF writer = p THEN NoProc ELSE writer

\* The operation's result is r and control moves to `where` ("done" unless a
\* caller of this definition carries on after an error)
ReturnAt(p, loc, r, where) ==
    /\ pc' = [pc EXCEPT ![p] = where]
    /\ st' = [st EXCEPT ![p] = [loc EXCEPT !.res = r,
                                           !.out = IF where = "done"
                                                   THEN BlockOn(loc.op, r)
                                                   ELSE loc.out]]
    /\ writer' = IF writer = p /\ where = "done" THEN NoProc ELSE writer

Goto(p, loc, where) ==
    /\ pc' = [pc EXCEPT ![p] = where]
    /\ st' = [st EXCEPT ![p] = loc]
    /\ UNCHANGED writer

\* A node call of step `what` fails (connection failure, decode failure)
Fault(p, what) ==
    /\ budget > 0
    /\ budget' = budget - 1
    /\ Return(p, [st[p] EXCEPT !.failed = what], Err("fault", 0, what))

\* commit_any enters without the write guard
EnterUnguarded(p) ==
    /\ p \in active
    /\ pc[p] = "start"
    /\ pc' = [pc EXCEPT ![p] = "height"]
    /\ UNCHANGED <<active, st, writer, height, chainSeq, txs, budget, ext, signed, modes>>
    /\ UNCHANGED gasVars

\* sender.rs:150-152, 291: pub_addr_str(), the address of the signing key
SignerAddress == "signer"

\* sender.rs:154-160: the authz granter when there is one, else pub_addr()
MessageSender ==
    IF authzGranter # NoGranter THEN authzGranter ELSE SignerAddress

\* core.rs:131, 159, 186, 241, 318: the sender field of the message an
\* operation builds: msg_sender(), but sender.address() in instantiate2
SenderField(op) ==
    IF op = "instantiate2" THEN SignerAddress ELSE MessageSender

TypeUrl(op) ==
    IF op = "upload" THEN "/cosmwasm.wasm.v1.MsgStoreCode"
    ELSE IF op = "execute" THEN "/cosmwasm.wasm.v1.MsgExecuteContract"
    ELSE IF op = "instantiate" THEN "/cosmwasm.wasm.v1.MsgInstantiateContract"
    ELSE IF op = "instantiate2" THEN "/cosmwasm.wasm.v1.MsgInstantiateContract2"
    ELSE "/cosmwasm.wasm.v1.MsgMigrateContract"

\* core.rs:130-135, 155-162, 182-191, 240-245, 317-321: the one message an
\* operation of DaemonAsync hands to commit_tx
DaemonMsg(op, payload) ==
    [type_url |-> TypeUrl(op), grantee |-> "", msgs |-> <<>>,
     value |-> payload, sender |-> SenderField(op)]

\* The await point an operation first stops at
FirstStep(op) ==
    IF op \in {"wait_blocks", "next_block"} THEN "wb_height"
    ELSE IF op = "wait_seconds" THEN "sleep"
    ELSE "height"

\* sender.rs:59-63, the options of the Daemon's sender
SenderOptions == [authz_granter |-> authzGranter, fee_granter |-> feeGranter]

\* sync/core.rs:213-215: commit_any takes sender_mut(), the write guard, and
\* holds it for the whole block_on; the TxHandler operations take no guard.
\* An operation of DaemonAsync builds its message before its first await.
Enter(p) ==
    /\ p \in active
    /\ pc[p] = "start"
    /\ IF st[p].op = "commit_any"
       THEN writer = NoProc /\ writer' = p
       ELSE UNCHANGED writer
    /\ pc' = [pc EXCEPT ![p] = FirstStep(st[p].op)]
    /\ st' = [st EXCEPT ![p].msgs =
                 IF st[p].op \in DaemonOps
                 THEN <<DaemonMsg(st[p].op, st[p].msgs[1].value)>>
                 ELSE st[p].msgs,
                         ![p].entrySender = SenderOptions]
    /\ UNCHANGED <<active, height, chainSeq, txs, budget, ext, signed, modes>>
    /\ UNCHANGED gasVars

MsgExec(grantee, msgs) ==
    [type_url |-> "/cosmos.authz.v1beta1.MsgExec", grantee |-> grantee,
     msgs |-> msgs, value |-> "", sender |-> ""]

\* The envelope names the granter as its grantee
AuthzGranteeIsGranter == authzGranter

\* sender.rs:291: grantee: self.pub_addr_str()?
AuthzGrantee == SignerAddress

\* sender.rs:286-298: the messages commit_tx_any puts in the body
CommitMsgs(msgs) ==
    IF authzGranter # NoGranter THEN <<MsgExec(AuthzGrantee, msgs)>> ELSE msgs

\* sender.rs:248: simulate builds the body from the messages it was given
SimulateMsgs(msgs) == msgs

\* sender.rs:284-302 (commit_tx_any) and 246-250 (simulate):
\* timeout_height = block_height()? + 10, then the body is built
BlockHeight(p) ==
    /\ pc[p] = "height"
    /\ \/ /\ Goto(p, [st[p] EXCEPT !.timeout = height + TIMEOUT_LOOKAHEAD,
                                   !.builtAt = height,
                                   !.body = IF st[p].op = "simulate"
                                            THEN SimulateMsgs(st[p].msgs)
                                            ELSE CommitMsgs(st[p].msgs)],
                  IF st[p].op = "simulate" THEN "sim_gas" ELSE "account")
          /\ UNCHANGED budget
       \/ Fault(p, "block_height")
    /\ UNCHANGED <<active, height, chainSeq, txs, ext, signed, modes>>
    /\ UNCHANGED gasVars

\* sender.rs:336-362 base_account, called by the builder for every attempt
BaseAccount(p) ==
    /\ pc[p] = "account"
    /\ \/ /\ Goto(p, [st[p] EXCEPT !.seq = AccountSequence(p), !.auth = chainSeq],
                  "simulate")
          /\ UNCHANGED budget
       \/ Fault(p, "account")
    /\ UNCHANGED <<active, height, chainSeq, txs, ext, signed, modes>>
    /\ UNCHANGED gasVars

\* sender.rs:206-237 calculate_gas (trial signing, simulate_tx), then the
\* signing of the priced transaction with the sequence read for this attempt
Simulate(p) ==
    /\ pc[p] = "simulate"
    /\ \/ /\ Goto(p, [st[p] EXCEPT !.simBody = st[p].body], "broadcast")
          /\ signed' = signed \cup {<<p, st[p].seq>>}
          /\ UNCHANGED budget
       \/ /\ Fault(p, "simulate")
          /\ UNCHANGED signed
    /\ UNCHANGED <<active, height, chainSeq, txs, ext, modes>>
    /\ UNCHANGED gasVars

\* The locals of caller p once its signed transaction has been sent
Sent(p) ==
    [st[p] EXCEPT !.resentExpired =
                     @ \/ (st[p].bcasts > 0 /\ height > st[p].timeout)]

\* The broadcaster's decision on a rejection with log `log`
Rejected(p, log) ==
    LET s   == FirstMatch(log)
        loc == [Sent(p) EXCEPT !.log = log, !.applied = s,
                             !.bcasts = st[p].bcasts + 1,
                             !.feeRejects = IF s = "insufficient_fee"
                                            THEN st[p].feeRejects + 1
                                            ELSE st[p].feeRejects]
    IN  IF s = "none"
        THEN ReturnAt(p, loc, Err("tx_failed", RejectCode(log), log), AfterBroadcastErr)
        ELSE IF ~CanRetry(s, loc)
        THEN ReturnAt(p, loc, IF s = "account_sequence"
                              THEN Err("bounded_retries", RejectCode(log), log)
                              ELSE Err("tx_failed", RejectCode(log), log),
                      AfterBroadcastErr)
        ELSE IF s = "account_sequence"
        THEN Goto(p, [loc EXCEPT !.seqRetries = loc.seqRetries + 1], "account")
        ELSE Goto(p, [loc EXCEPT !.feeRetries = loc.feeRetries + 1], "account")

\* The broadcast response is returned to the caller as the result
ReturnBroadcastResponse(p, loc) == Return(p, loc, Ok(loc.hash, 0, 0))

\* sender.rs:308-316: the broadcaster's response only supplies the txhash
\* that find_tx is called with
ConfirmAfterBroadcast(p, loc) == Goto(p, loc, "find_tx")

Accepted(p) ==
    LET h   == Len(txs) + 1
        loc == [Sent(p) EXCEPT !.hash = h, !.bcasts = st[p].bcasts + 1,
                             !.log = "none", !.applied = "none"]
    IN  /\ txs' = Append(txs, [by |-> p, seq |-> st[p].seq, status |-> "mempool",
                               height |-> 0, code |-> 0,
                               body |-> st[p].body, timeout |-> st[p].timeout])
        /\ chainSeq' = chainSeq + 1
        /\ ConfirmAfterBroadcast(p, loc)

\* sender.rs:364-378 broadcast_tx, and the node's CheckTx of the transaction
BroadcastTx(p) ==
    /\ pc[p] = "broadcast"
    /\ modes' = modes \cup {BroadcastMode}
    /\ \/ /\ st[p].seq # chainSeq
          /\ Rejected(p, "seq")
          /\ UNCHANGED <<txs, chainSeq, budget>>
       \/ /\ st[p].seq = chainSeq
          /\ height > st[p].timeout
          /\ Rejected(p, "other")
          /\ UNCHANGED <<txs, chainSeq, budget>>
       \/ /\ st[p].seq = chainSeq
          /\ height <= st[p].timeout
          /\ Accepted(p)
          /\ UNCHANGED budget
       \/ /\ st[p].seq = chainSeq
          /\ budget > 0
          /\ budget' = budget - 1
          /\ \E log \in LogKinds : Rejected(p, log)
          /\ UNCHANGED <<txs, chainSeq>>
       \/ /\ budget > 0
          /\ budget' = budget - 1
          /\ ReturnAt(p, [Sent(p) EXCEPT !.failed = "broadcast",
                                       !.bcasts = st[p].bcasts + 1],
                      Err("fault", 0, "broadcast"), AfterBroadcastErr)
          /\ UNCHANGED <<txs, chainSeq>>
    /\ UNCHANGED <<active, height, ext, signed>>
    /\ UNCHANGED gasVars

\* sender.rs:314-318: find_tx(txhash)?, then assert_broadcast_code_cosm_response.
\* find_tx polls GetTx(hash) until the node reports the transaction included,
\* a bounded number of polls has been made, or the query fails.
FindTx(p) ==
    LET h   == st[p].hash
        loc == [st[p] EXCEPT !.polls = st[p].polls + 1]
    IN  /\ pc[p] = "find_tx"
        /\ \/ /\ h \in 1..Len(txs)
              /\ txs[h].status = "included"
              /\ LET r   == AssertBroadcastCodeCosmResponse(h)
                     got == [loc EXCEPT !.found = TRUE]
                 IN  IF st[p].op = "upload" /\ r.kind = "ok"
                     THEN IF r.code = 0
                          THEN Goto(p, [got EXCEPT !.res = r], "code_query")
                          ELSE Return(p, got, Err("panic", r.code, "uploaded_code_id"))
                     ELSE Return(p, got, r)
              /\ UNCHANGED budget
           \/ /\ ~(h \in 1..Len(txs) /\ txs[h].status = "included")
              /\ IF loc.polls < MaxFindTxPolls
                 THEN Goto(p, loc, "find_tx")
                 ELSE Return(p, loc, Err("timeout", 0, "find_tx"))
              /\ UNCHANGED budget
           \/ Fault(p, "find_tx")
        /\ UNCHANGED <<active, height, chainSeq, txs, ext, signed, modes>>
        /\ UNCHANGED gasVars

----------------------------------------------------------------------------
(* DaemonAsyncBase::upload after its commit_tx, and wait_blocks *)

\* core.rs:332-336: while wasm._code(code_id).await.is_err() { next_block()? }
CodeQuery(p) ==
    /\ pc[p] = "code_query"
    /\ \/ /\ Return(p, [st[p] EXCEPT !.codeQueries = @ + 1], st[p].res)
          /\ UNCHANGED budget
       \/ /\ budget > 0
          /\ budget' = budget - 1
          /\ ReturnAt(p, [st[p] EXCEPT !.failed = "code_info",
                                       !.codeQueries = @ + 1,
                                       !.codeFails = @ + 1],
                      IF AfterCodeQueryErr = "done"
                      THEN Err("fault", 0, "code_info") ELSE st[p].res,
                      AfterCodeQueryErr)
    /\ UNCHANGED <<active, height, chainSeq, txs, ext, signed, modes>>
    /\ UNCHANGED gasVars

\* The target is one block short of the amount asked for
EndHeightOneShort(last, amount) == last + amount - 1

\* The target is one block beyond the amount asked for
EndHeightOneBeyond(last, amount) == last + amount + 1

\* core.rs:256: end_height = last_height + amount
EndHeight(last, amount) == last + amount

\* core.rs:286-288: next_block is wait_blocks(1)
Amount(loc) == IF loc.op \in {"upload", "next_block"} THEN 1 ELSE loc.amount

Sleep(blocks) == [ev |-> "sleep", n |-> blocks]

HeightQuery(h) == [ev |-> "height", n |-> h]

\* core.rs:276: wait_blocks returns Ok(()); in upload the loop at
\* core.rs:333 then repeats the code-info query
WaitBlocksOk(p, loc) ==
    IF loc.op = "upload"
    THEN Goto(p, [loc EXCEPT !.nextBlocks = @ + 1], "code_query")
    ELSE Return(p, loc, Ok(0, 0, 0))

\* core.rs:279-283 wait_seconds: one sleep, no node call
WaitSeconds(p) ==
    /\ pc[p] = "sleep"
    /\ Return(p, [st[p] EXCEPT !.waits = <<Sleep(st[p].amount)>>], Ok(0, 0, 0))
    /\ UNCHANGED <<active, height, chainSeq, txs, budget, ext, signed, modes>>
    /\ UNCHANGED gasVars

\* core.rs:255-256: last_height = _block_height()?; end_height = last_height + amount
WaitBlocksHeight(p) ==
    /\ pc[p] = "wb_height"
    /\ \/ /\ Goto(p, [st[p] EXCEPT !.last = height, !.entry = height,
                                   !.end = EndHeight(height, Amount(st[p])),
                                   !.waits = <<>>],
                  "wb_speed")
          /\ UNCHANGED budget
       \/ Fault(p, "wb_block_height")
    /\ UNCHANGED <<active, height, chainSeq, txs, ext, signed, modes>>
    /\ UNCHANGED gasVars

\* core.rs:258-267: _average_block_speed(Some(0.9))?, the sleep of
\* amount * average_block_speed, and the first test of the loop condition
WaitBlocksSpeed(p) ==
    /\ pc[p] = "wb_speed"
    /\ \/ /\ LET loc == [st[p] EXCEPT
                           !.waits = Append(@, Sleep(Amount(st[p])))]
             IN  IF st[p].last < st[p].end
                 THEN Goto(p, loc, "wb_poll")
                 ELSE WaitBlocksOk(p, loc)
          /\ UNCHANGED budget
       \/ Fault(p, "average_block_speed")
    /\ UNCHANGED <<active, height, chainSeq, txs, ext, signed, modes>>
    /\ UNCHANGED gasVars

\* The history of a wait keeps its first sleep and its last MaxRounds rounds
LastRounds(w) ==
    IF Len(w) > 1 + 2 * MaxRounds
    THEN <<w[1]>> \o SubSeq(w, Len(w) - 2 * MaxRounds + 1, Len(w))
    ELSE w

\* core.rs:267-275: one round of the loop: sleep, height query, loop test.
\* Nothing counts the rounds.
WaitBlocksPoll(p) ==
    /\ pc[p] = "wb_poll"
    /\ \/ /\ LET loc == [st[p] EXCEPT
                           !.last = height,
                           !.waits = LastRounds(@ \o <<Sleep(1),
                                                       HeightQuery(height)>>)]
             IN  IF height < st[p].end
                 THEN Goto(p, loc, "wb_poll")
                 ELSE WaitBlocksOk(p, loc)
          /\ UNCHANGED budget
       \/ Fault(p, "wb_block_height")
    /\ UNCHANGED <<active, height, chainSeq, txs, ext, signed, modes>>
    /\ UNCHANGED gasVars

----------------------------------------------------------------------------
(* The node *)

\* An empty block is produced
NewBlock ==
    /\ height < lastHeight
    /\ height' = height + 1
    /\ UNCHANGED <<active, pc, st, writer, chainSeq, txs, budget, ext, signed, modes>>
    /\ UNCHANGED gasVars

\* A block is produced that includes mempool transaction h; its execution
\* succeeds (code 0) or fails on chain (nonzero code)
IncludeTx(h) ==
    /\ h \in 1..Len(txs)
    /\ txs[h].status = "mempool"
    /\ height < lastHeight
    /\ height' = height + 1
    /\ \E c \in {0} \cup FailCodes :
          txs' = [txs EXCEPT ![h] = [@ EXCEPT !.status = "included",
                                               !.height = height + 1, !.code = c]]
    /\ UNCHANGED <<active, pc, st, writer, chainSeq, budget, ext, signed, modes>>
    /\ UNCHANGED gasVars

\* Another client submits a transaction signed with the same key
ExternalTx ==
    /\ ext < MaxExternal
    /\ ext' = ext + 1
    /\ chainSeq' = chainSeq + 1
    /\ UNCHANGED <<active, pc, st, writer, height, txs, budget, signed, modes>>
    /\ UNCHANGED gasVars

----------------------------------------------------------------------------
(* Sender::get_fee_from_gas, the gas component of the pair it returns *)

Max(a, b) == IF a >= b THEN a ELSE b

RECURSIVE Pow2Floor(_)
\* The largest power of two that is <= n, for n >= 1
Pow2Floor(n) == IF n < 2 THEN 1 ELSE 2 * Pow2Floor(n \div 2)

\* (gas as f64 * SMALL_GAS_BUFFER) as u64.  The f64 nearest to 1.4 is
\* 0x1.6666666666666p+0 = 7/5 - 1/(5 * 2^51), so the exact product is
\* 7g/5 - g/(5 * 2^51).  When 5 does not divide g the product lies at least
\* 0.2 above floor(7g/5) and the cast yields floor(7g/5).  When g = 5k the
\* product is 7k - k/2^51; with 2^e the largest power of two <= 7k, the
\* doubles below 7k are 2^(e-52) apart, and the product rounds to 7k exactly
\* when k/2^51 <= 2^(e-53) (the tie goes to 7k, whose mantissa is even),
\* that is when 4k <= 2^e; otherwise it rounds below 7k and the cast
\* yields 7k - 1.
MulSmallGasBuffer(g) ==
    LET k == g \div 5
    IN  IF g > 0 /\ g % 5 = 0 /\ 4 * k > Pow2Floor(7 * k)
        THEN 7 * k - 1
        ELSE (14 * g) \div 10

\* (gas as f64 * GAS_BUFFER) as u64.  The f64 nearest to 1.3 is
\* 0x1.4cccccccccccdp+0 = 13/10 + 1/(5 * 2^52): the product exceeds 13g/10
\* by less than 2^-30 for g < 2^24, never reaching the next integer.
MulGasBuffer(g) == (13 * g) \div 10

\* (gas as f64 * gas_buffer) as u64 for an override of halves/2 (1.5, 2.0):
\* these multipliers are exact in binary, and so is the product
MulOverride(g, halves) == (g * halves) \div 2

GetFeeFromGasOverrideBelowThreshold(g, buf, min) ==
    LET scaled == IF buf # 0 /\ g < BUFFER_THRESHOLD THEN MulOverride(g, buf)
                  ELSE IF g < BUFFER_THRESHOLD THEN MulSmallGasBuffer(g)
                  ELSE MulGasBuffer(g)
    IN  IF min # 0 THEN Max(min, scaled) ELSE scaled

GetFeeFromGasThresholdLe(g, buf, min) ==
    LET scaled == IF buf # 0 THEN MulOverride(g, buf)
                  ELSE IF g <= BUFFER_THRESHOLD THEN MulSmallGasBuffer(g)
                  ELSE MulGasBuffer(g)
    IN  IF min # 0 THEN Max(min, scaled) ELSE scaled

\* sender.rs:184-203.  buf = 0 and min = 0 stand for an unset gas_buffer
\* and min_gas.  (min_gas as f64).max(gas_expected) cast to u64 is the
\* larger of min_gas and the truncated product, min_gas being an integer.
GetFeeFromGas(g, buf, min) ==
    LET scaled == IF buf # 0 THEN MulOverride(g, buf)
                  ELSE IF g < BUFFER_THRESHOLD THEN MulSmallGasBuffer(g)
                  ELSE MulGasBuffer(g)
    IN  IF min # 0 THEN Max(min, scaled) ELSE scaled

\* gas_expected (sender.rs:185-195) in tenths of a gas unit: the exact
\* decimal product, which the f64 value differs from by less than 2^-30
GasExpectedBeforeMinGas(g, buf, min) ==
    IF buf # 0 THEN 5 * g * buf
    ELSE IF g < BUFFER_THRESHOLD THEN 14 * g
    ELSE 13 * g

GasExpected(g, buf, min) ==
    LET scaled == IF buf # 0 THEN 5 * g * buf
                  ELSE IF g < BUFFER_THRESHOLD THEN 14 * g
                  ELSE 13 * g
    IN  IF min # 0 THEN Max(10 * min, scaled) ELSE scaled

AverageGasPrice(tokens) == tokens[1].average_gas_price

\* sender.rs:197-199: the larger of the two prices of fee_tokens[0], in
\* units of 0.00001
GasPrice(tokens) ==
    Max(tokens[1].fixed_min_gas_price, tokens[1].average_gas_price)

\* sender.rs:176-180
GetFeeToken(tokens) == tokens[1].denom

\* floor(tenths / 10 * units / 100000), the quotient and remainder of
\* tenths by 1000 multiplied apart to stay within 32 bits
MulPrice(tenths, units) ==
    LET hi == tenths \div 1000
        lo == tenths % 1000
    IN  (hi * units + (lo * units) \div 1000) \div 1000

\* sender.rs:196-202, the fee component: (gas_expected * (price + 0.00001))
\* as u128.  The exact product is a multiple of 0.000001; when it is not
\* an integer it lies at least 0.000001 from the integers around it, the
\* f64 product lies within 2^-20 of it, and the cast yields its floor.
\* With the inputs and prices drawn here the exact product is an integer
\* only for g = 0 and for g = 200 000 under a gas_buffer override, where
\* the f64 product rounds to that very integer (its distance from it is
\* below a quarter of the spacing of the doubles there).
FeeAmount(g, buf, min, tokens) ==
    MulPrice(GasExpected(g, buf, min), GasPrice(tokens) + 1)

DefaultFeeTokens ==
    << [denom |-> "utoken", fixed_min_gas_price |-> 2500,
        average_gas_price |-> 3000] >>

\* chain_data.fees.fee_tokens as configurations of one or two tokens:
\* prices 0.025/0.03, 1.0/0.5 and 0.05/0.04
FeeTokenConfigs ==
    { DefaultFeeTokens,
      << [denom |-> "utoken", fixed_min_gas_price |-> 2500,
          average_gas_price |-> 3000],
         [denom |-> "uother", fixed_min_gas_price |-> 100000,
          average_gas_price |-> 100000] >>,
      << [denom |-> "uother", fixed_min_gas_price |-> 100000,
          average_gas_price |-> 50000],
         [denom |-> "utoken", fixed_min_gas_price |-> 2500,
          average_gas_price |-> 3000] >>,
      << [denom |-> "utoken", fixed_min_gas_price |-> 5000,
          average_gas_price |-> 4000] >> }

GasInputs == (0..SmallGasMax)
             \cup ((BUFFER_THRESHOLD - GasWindow)..(BUFFER_THRESHOLD + GasWindow))

BufferOverrides == {0, 3, 4}

MinGasOverrides == {0, 50, 270000}

ComputeFee ==
    /\ gasOut = -1
    /\ gasOut' = GetFeeFromGas(gasIn, envGasBuffer, envMinGas)
    /\ feeOut' = [denom |-> GetFeeToken(feeTokens),
                  amount |-> FeeAmount(gasIn, envGasBuffer, envMinGas,
                                       feeTokens)]
    /\ UNCHANGED <<gasIn, envGasBuffer, envMinGas, feeTokens, cfgVars, accVars>>
    /\ UNCHANGED pipeVars

----------------------------------------------------------------------------
(* Sender::simulate and Sender::assert_wallet_balance *)

\* Gas estimates the node's simulation answers with
SimGasEstimates == {100, 150000}

\* Balances of the signer in the fee denom: below, at and above the fees
\* of the two estimates at the default price (4 and 6302)
Balances == {3, 4, 6302}

NotEnoughBalance(expected, current) ==
    [kind |-> "not_enough_balance", code |-> 0, log |-> "none", hash |-> 0,
     height |-> 0, expected |-> expected, current |-> current]

\* sender.rs:250-262: tx_builder.simulate (base_account, calculate_gas and
\* the node's simulation of the body), get_fee_from_gas, and the test of
\* disable_wallet_balance_assertion
SimulateTx(p) ==
    /\ pc[p] = "sim_gas"
    /\ \/ /\ \E g \in SimGasEstimates :
                LET loc == [st[p] EXCEPT
                              !.simBody = st[p].body,
                              !.gas = GetFeeFromGas(g, envGasBuffer, envMinGas),
                              !.fee = [denom |-> GetFeeToken(feeTokens),
                                       amount |-> FeeAmount(g, envGasBuffer,
                                                            envMinGas, feeTokens)]]
                IN  IF envDisableBalance
                    THEN Return(p, loc, Ok(0, 0, 0))
                    ELSE Goto(p, loc, "balance")
          /\ UNCHANGED budget
       \/ Fault(p, "simulate")
    /\ UNCHANGED <<active, height, chainSeq, txs, ext, signed, modes>>
    /\ UNCHANGED gasVars

\* Any balance at all passes
HasSomeBalance(current, fee) == current > 0

\* sender.rs:408: parsed_balance.amount >= fee.amount
HasEnoughBalance(current, fee) == current >= fee.amount

\* sender.rs:427: if !CwOrchEnvVars::load()?.disable_manual_interaction
\* { println!("No Manual Interactions, defaulting to 'no'"); return Err(..) }
FailsWithoutPrompt == ~envDisableManual

\* sender.rs:391-433: the balance query, the comparison with the fee, and
\* the test that decides between the error and the prompt
BalanceQuery(p) ==
    /\ pc[p] = "balance"
    /\ \/ /\ LET loc == [st[p] EXCEPT !.current = balance,
                                      !.queries = st[p].queries + 1]
             IN  IF HasEnoughBalance(balance, st[p].fee)
                 THEN Return(p, loc, Ok(0, 0, 0))
                 ELSE IF FailsWithoutPrompt
                 THEN Return(p, loc, NotEnoughBalance(st[p].fee, balance))
                 ELSE Goto(p, loc, "stdin")
          /\ UNCHANGED budget
       \/ Fault(p, "balance")
    /\ UNCHANGED <<active, height, chainSeq, txs, ext, signed, modes>>
    /\ UNCHANGED gasVars

\* Lines the operator may enter, as sequences of characters; the empty
\* line is what read_line leaves in `input` at the end of the input
StdinLines == { <<"y">>, <<"Y", "e", "s">>, <<"n", "o">>, <<>> }

\* str::to_lowercase on the characters drawn
ToLowercase(line) ==
    [i \in 1..Len(line) |->
        IF line[i] = "Y" THEN "y"
        ELSE IF line[i] = "N" THEN "n"
        ELSE line[i]]

Contains(line, c) == \E i \in 1..Len(line) : line[i] = c

\* The answer counts as a confirmation only with a lower-case 'y' typed
ConfirmsCaseSensitive(line) == Contains(line, "y")

\* sender.rs:437: input.to_lowercase().contains('y')
Confirms(line) == Contains(ToLowercase(line), "y")

\* sender.rs:435-445: a line is read from stdin; with a 'y' in it the
\* balance is asserted again, otherwise the call fails.  A failed read
\* (read_line(..)?) ends the call with the I/O error.
ReadLine(p) ==
    /\ pc[p] = "stdin"
    /\ \/ /\ \E input \in StdinLines :
                LET loc == [st[p] EXCEPT !.reads = st[p].reads + 1,
                                         !.line = input]
                IN  IF Confirms(input)
                    THEN /\ st[p].reads < MaxReads
                         /\ Goto(p, [loc EXCEPT !.confirms = loc.confirms + 1],
                                 "balance")
                    ELSE Return(p, loc,
                                NotEnoughBalance(st[p].fee, st[p].current))
          /\ UNCHANGED budget
       \/ Fault(p, "stdin")
    /\ UNCHANGED <<active, height, chainSeq, txs, ext, signed, modes>>
    /\ UNCHANGED gasVars

\* The operator, or anyone, sends funds to the signer
TopUp ==
    /\ \E b \in Balances : b > balance /\ balance' = b
    /\ UNCHANGED <<envDisableBalance, envDisableManual, authzGranter, feeGranter,
                   lastHeight>>
    /\ UNCHANGED accVars
    /\ UNCHANGED <<gasIn, envGasBuffer, envMinGas, gasOut, feeTokens, feeOut>>
    /\ UNCHANGED pipeVars

----------------------------------------------------------------------------
(* Daemon::authz_granter, Daemon::fee_granter and TxHandler::set_sender *)

Granters == {"granter", "other"}

\* Senders a caller may install: the same key with other options
Senders == [authz_granter : {NoGranter, "other"},
            fee_granter : {NoGranter, "other"}]

SetterUnchanged ==
    /\ UNCHANGED <<envDisableBalance, envDisableManual, balance, lastHeight>>
    /\ UNCHANGED accVars
    /\ UNCHANGED <<gasIn, envGasBuffer, envMinGas, gasOut, feeTokens, feeOut>>
    /\ UNCHANGED pipeVars

\* sync/core.rs:115-118 (and sender.rs:127-129): under the write guard, taken
\* and dropped within the statement, options.authz_granter = Some(granter)
AuthzGranter(g) ==
    /\ WriteGuardFree
    /\ authzGranter # g
    /\ authzGranter' = g
    /\ UNCHANGED feeGranter
    /\ SetterUnchanged

\* sync/core.rs:121-124: under the write guard, the fee granter is set
FeeGranter(g) ==
    /\ WriteGuardFree
    /\ feeGranter # g
    /\ feeGranter' = g
    /\ UNCHANGED authzGranter
    /\ SetterUnchanged

\* sync/core.rs:146-149: under the write guard the sender is replaced
SetSender(s) ==
    /\ WriteGuardFree
    /\ s # SenderOptions
    /\ authzGranter' = s.authz_granter
    /\ feeGranter' = s.fee_granter
    /\ SetterUnchanged

----------------------------------------------------------------------------
(* Sender::base_account, the decoding of the account the node returns *)

NoRecord == [account_number |-> -1, sequence |-> -1]

\* Base records (account number, sequence) a decoder may produce
BaseRecords ==
    { [account_number |-> 1, sequence |-> 4],
      [account_number |-> 1, sequence |-> 5],
      [account_number |-> 7, sequence |-> 0] }

\* What one decoder makes of the bytes: it fails, or it decodes them into a
\* message that holds a base record, or (a wrapper) into one that holds none
Failed == [decodes |-> FALSE, base |-> NoRecord]

Decoded(r) == [decodes |-> TRUE, base |-> r]

\* A QueryAccountResponse: the account field is present or not, and its
\* bytes under each of the three decoders
AccountResponses ==
    [present : BOOLEAN,
     base    : {Failed} \cup {Decoded(r) : r \in BaseRecords},
     vesting : {Failed, Decoded(NoRecord)} \cup {Decoded(r) : r \in BaseRecords},
     eth     : {Failed, Decoded(NoRecord)} \cup {Decoded(r) : r \in BaseRecords}]

\* A standard BaseAccount of the signer
DefaultAccount ==
    [present |-> TRUE,
     base |-> Decoded([account_number |-> 1, sequence |-> 4]),
     vesting |-> Failed, eth |-> Failed]

NoAccount == [kind |-> "none", base |-> NoRecord]

\* The ethereum-style wrapper is tried before the vesting wrapper
DecodeOrderEthFirst == <<"base", "eth", "vesting">>

\* sender.rs:348-354: BaseAccount, then PeriodicVestingAccount, then
\* InjectiveEthAccount
DecodeOrder == <<"base", "vesting", "eth">>

DecodeWith(enc, acc) ==
    IF enc = "base" THEN acc.base
    ELSE IF enc = "vesting" THEN acc.vesting
    ELSE acc.eth

\* sender.rs:346-361: the unwrap of resp.account, the chain of decoders,
\* the unwraps of the wrappers' base records, and the error of the last
\* else branch
DecodeBaseAccount(acc) ==
    IF ~acc.present THEN [kind |-> "panic", base |-> NoRecord]
    ELSE IF \E i \in 1..Len(DecodeOrder) : DecodeWith(DecodeOrder[i], acc).decodes
    THEN LET i == CHOOSE k \in 1..Len(DecodeOrder) :
                     /\ DecodeWith(DecodeOrder[k], acc).decodes
                     /\ \A j \in 1..(k - 1) :
                           ~DecodeWith(DecodeOrder[j], acc).decodes
             d == DecodeWith(DecodeOrder[i], acc)
         IN  IF d.base = NoRecord
             THEN [kind |-> "panic", base |-> NoRecord]
             ELSE [kind |-> "ok", base |-> d.base]
    ELSE [kind |-> "unknown_account_type", base |-> NoRecord]

\* sender.rs:341-344 and 346-361: the account query, which may fail, and
\* the decoding of its response
QueryAccount ==
    /\ accountOut = NoAccount
    /\ \/ accountOut' = DecodeBaseAccount(account)
       \/ accountOut' = [kind |-> "fault", base |-> NoRecord]
    /\ UNCHANGED <<account, gasIn, envGasBuffer, envMinGas, gasOut, feeTokens,
                   feeOut, cfgVars>>
    /\ UNCHANGED pureVars
    /\ UNCHANGED pipeVars

----------------------------------------------------------------------------
(* parse_cw_coins of cw-orch-daemon and of boot-core, proto_parse_cw_coins *)

\* Denoms as strings of characters: one that cosmrs accepts and one it
\* rejects for the space in it
Denoms == { <<"u", "j", "u", "n", "o">>, <<"u", " ", "x">> }

\* cosmrs Denom::from_str: a length of 3 to 128 and no character outside
\* letters, digits and / : . _ -
DenomFromStr(d) ==
    LET chars ==
          {"a", "b", "c", "d", "e", "f", "g", "h", "i", "j", "k", "l", "m",
           "n", "o", "p", "q", "r", "s", "t", "u", "v", "w", "x", "y", "z",
           "0", "1", "2", "3", "4", "5", "6", "7", "8", "9",
           "/", ":", ".", "_", "-"}
    IN  IF Len(d) >= 3 /\ Len(d) <= 128 /\ \A i \in 1..Len(d) : d[i] \in chars
        THEN [kind |-> "ok", denom |-> d]
        ELSE [kind |-> "err", denom |-> <<>>]

\* Coins with amounts in atomic units: none, one, and whole and fractional
\* multiples of 10^6
CwCoins == [amount : {0, 1, 1000000, 2500000}, denom : Denoms]

RECURSIVE SeqsUpTo(_, _)
\* The lists of at most n elements of S
SeqsUpTo(S, n) ==
    IF n = 0 THEN {<<>>}
    ELSE SeqsUpTo(S, n - 1)
         \cup {Append(l, x) : l \in {k \in SeqsUpTo(S, n - 1) : Len(k) = n - 1},
                              x \in S}

CoinLists == SeqsUpTo(CwCoins, MaxCoins)

DigitChars == <<"0", "1", "2", "3", "4", "5", "6", "7", "8", "9">>

RECURSIVE Uint128ToString(_)
\* Uint128::to_string, the decimal digits of n
Uint128ToString(n) ==
    IF n < 10 THEN <<DigitChars[n + 1]>>
    ELSE Append(Uint128ToString(n \div 10), DigitChars[(n % 10) + 1])

RECURSIVE TrimZeros(_)
TrimZeros(digits) ==
    IF digits # <<>> /\ digits[Len(digits)] = "0"
    THEN TrimZeros(SubSeq(digits, 1, Len(digits) - 1))
    ELSE digits

RECURSIVE PadLeft(_, _)
PadLeft(digits, n) ==
    IF Len(digits) >= n THEN digits ELSE PadLeft(<<"0">> \o digits, n)

\* cosmwasm_std::Decimal::from_atomics(amount, 6).to_string(): the value
\* amount / 10^6, printed as its whole part and, when it has one, a point
\* and the fractional part without trailing zeros
DecimalFromAtomicsToString(amount) ==
    LET whole == amount \div 1000000
        frac  == amount % 1000000
    IN  IF frac = 0 THEN Uint128ToString(whole)
        ELSE Uint128ToString(whole) \o <<".">>
                \o TrimZeros(PadLeft(Uint128ToString(frac), 6))

RECURSIVE ParseDigits(_)
ParseDigits(s) ==
    IF s = <<>> THEN 0
    ELSE 10 * ParseDigits(SubSeq(s, 1, Len(s) - 1))
         + (CHOOSE d \in 0..9 : DigitChars[d + 1] = s[Len(s)])

\* cosmrs::Decimal::from_str, the parse of an unsigned integer: any
\* character that is no digit is an error
DecimalFromStr(s) ==
    IF s # <<>> /\ \A i \in 1..Len(s) : \E d \in 1..10 : DigitChars[d] = s[i]
    THEN [kind |-> "ok", amount |-> ParseDigits(s)]
    ELSE [kind |-> "err", amount |-> 0]

NoCoins == [by |-> "none", kind |-> "none", coins |-> <<>>]

\* .iter().map(conv).collect::<Result<Vec<_>, _>>(): the converted elements
\* in their order, or the error of the first element whose conversion fails
Collect(by, converted) ==
    IF \E i \in 1..Len(converted) : converted[i].kind = "err"
    THEN [by |-> by, kind |-> "err", coins |-> <<>>]
    ELSE [by |-> by, kind |-> "ok",
          coins |-> [i \in 1..Len(converted) |-> converted[i].coin]]

\* core.rs:377-389, parse_cw_coins of cw-orch-daemon: amount.u128(), the
\* integer itself, and Denom::from_str(denom)?
ParseCwCoins(coins) ==
    Collect("daemon",
            [i \in 1..Len(coins) |->
                LET d == DenomFromStr(coins[i].denom)
                IN  [kind |-> d.kind,
                     coin |-> [amount |-> coins[i].amount, denom |-> d.denom]]])

\* boot-core data_structures.rs:14-27, parse_cw_coins of boot-core:
\* Decimal::from_atomics(*amount, 6), printed and parsed as a cosmrs::Decimal
BootParseCwCoins(coins) ==
    Collect("boot",
            [i \in 1..Len(coins) |->
                LET a == DecimalFromStr(
                            DecimalFromAtomicsToString(coins[i].amount))
                    d == DenomFromStr(coins[i].denom)
                IN  [kind |-> IF a.kind = "ok" /\ d.kind = "ok" THEN "ok" ELSE "err",
                     coin |-> [amount |-> a.amount, denom |-> d.denom]]])

\* core.rs:391-403, proto_parse_cw_coins: the amount printed, the denom
\* cloned, no conversion that can fail
ProtoParseCwCoins(coins) ==
    Collect("proto",
            [i \in 1..Len(coins) |->
                [kind |-> "ok",
                 coin |-> [amount |-> Uint128ToString(coins[i].amount),
                           denom |-> coins[i].denom]]])

CoinsUnchanged ==
    /\ UNCHANGED <<coinsIn, signKey, signDoc, ethFeature, signOut>>
    /\ UNCHANGED <<account, accountOut>>
    /\ UNCHANGED <<gasIn, envGasBuffer, envMinGas, gasOut, feeTokens, feeOut,
                   cfgVars>>
    /\ UNCHANGED pipeVars

CallParseCwCoins ==
    /\ coinsOut = NoCoins
    /\ coinsOut' = ParseCwCoins(coinsIn)
    /\ CoinsUnchanged

CallBootParseCwCoins ==
    /\ coinsOut = NoCoins
    /\ coinsOut' = BootParseCwCoins(coinsIn)
    /\ CoinsUnchanged

CallProtoParseCwCoins ==
    /\ coinsOut = NoCoins
    /\ coinsOut' = ProtoParseCwCoins(coinsIn)
    /\ CoinsUnchanged

----------------------------------------------------------------------------
(* Sender::sign *)

ETHEREUM_COIN_TYPE == 60

\* Held keys: the coin-type tag (0, ethereum, cosmos, terra, secret), and
\* the bech32 prefix of the chain
PrivateKeys == [coin_type : {0, 60, 118, 330, 529}, prefix : {"cosmos", "inj"}]

SignDocs == [body : {"a", "b"}, account_number : {1, 7}, sequence : {0, 4}]

DefaultKey == [coin_type |-> 118, prefix |-> "cosmos"]

DefaultDoc == [body |-> "a", account_number |-> 1, sequence |-> 0]

NoSign == [kind |-> "none", scheme |-> "none", doc |-> DefaultDoc]

\* The scheme is chosen by the chain the key is for
UsesEthSchemeByPrefix(key) == key.prefix = "inj"

\* sender.rs:322: self.private_key.coin_type == ETHEREUM_COIN_TYPE
UsesEthScheme(key) == key.coin_type = ETHEREUM_COIN_TYPE

\* sender.rs:321-334.  `signs` is whether the signing routine called
\* succeeds: sign_injective(sign_doc)? and sign_doc.sign(..)? pass its
\* error on.  Without the feature "eth" the ethereum branch is a panic!.
Sign(key, doc, feature, signs) ==
    IF UsesEthScheme(key)
    THEN IF ~feature
         THEN [kind |-> "panic", scheme |-> "none", doc |-> doc]
         ELSE IF signs
         THEN [kind |-> "signed", scheme |-> "injective", doc |-> doc]
         ELSE [kind |-> "error", scheme |-> "injective", doc |-> doc]
    ELSE IF signs
         THEN [kind |-> "signed", scheme |-> "secp256k1", doc |-> doc]
         ELSE [kind |-> "error", scheme |-> "secp256k1", doc |-> doc]

CallSign ==
    /\ signOut = NoSign
    /\ \E signs \in BOOLEAN :
          signOut' = Sign(signKey, signDoc, ethFeature, signs)
    /\ UNCHANGED <<coinsIn, coinsOut, signKey, signDoc, ethFeature>>
    /\ UNCHANGED <<account, accountOut>>
    /\ UNCHANGED <<gasIn, envGasBuffer, envMinGas, gasOut, feeTokens, feeOut,
                   cfgVars>>
    /\ UNCHANGED pipeVars

----------------------------------------------------------------------------
(* Specifications of the pipeline *)

\* The configuration of a run in which nothing asks for it
CfgIdle ==
    /\ envDisableBalance = FALSE
    /\ envDisableManual = FALSE
    /\ authzGranter = NoGranter
    /\ feeGranter = NoGranter
    /\ balance = 0

FeeIdle ==
    /\ gasIn = 0
    /\ envGasBuffer = 0
    /\ envMinGas = 0
    /\ gasOut = -1
    /\ feeTokens = DefaultFeeTokens
    /\ feeOut = NoFee

PureIdle ==
    /\ coinsIn = <<>>
    /\ coinsOut = NoCoins
    /\ signKey = DefaultKey
    /\ signDoc = DefaultDoc
    /\ ethFeature = FALSE
    /\ signOut = NoSign

AccIdle == account = DefaultAccount /\ accountOut = NoAccount /\ PureIdle

GasIdle == CfgIdle /\ FeeIdle /\ AccIdle

\* Message lists a caller passes: one message, and two in either order
MsgLists == {<<Msg("a")>>, <<Msg("a"), Msg("b")>>, <<Msg("b"), Msg("a")>>}

PipeStartMsgs(act, ops, lists, b) ==
    /\ active = act
    /\ pc = [p \in Procs |-> "start"]
    /\ st \in [Procs -> {[InitSt(op) EXCEPT !.msgs = m] :
                            op \in ops \cup {"commit_tx"}, m \in lists}]
    /\ \A p \in act : st[p].op \in ops
    /\ \A p \in Procs \ act : st[p] = InitSt("commit_tx")
    /\ writer = NoProc
    /\ height = 1
    /\ chainSeq = InitSeq
    /\ txs = <<>>
    /\ budget = b
    /\ ext = 0
    /\ signed = {}
    /\ modes = {}

PipeStart(act, ops, b) == PipeStartMsgs(act, ops, {DefaultMsgs}, b)

PipeInit(act, ops, b) ==
    PipeStart(act, ops, b) /\ GasIdle /\ lastHeight = MaxHeight

\* One caller, every operation, the full budget of node misbehaviour
Init == PipeInit({1}, Ops, MaxScripted)

Next ==
    \/ \E p \in Procs :
          \/ Enter(p)
          \/ BlockHeight(p)
          \/ BaseAccount(p)
          \/ Simulate(p)
          \/ BroadcastTx(p)
          \/ FindTx(p)
          \/ CodeQuery(p)
          \/ WaitBlocksHeight(p)
          \/ WaitBlocksSpeed(p)
          \/ WaitBlocksPoll(p)
    \/ NewBlock
    \/ \E h \in 1..Len(txs) : IncludeTx(h)
    \/ ExternalTx

Spec == Init /\ [][Next]_vars

\* Two callers sharing one Daemon and signing identity
ConcInit == PipeInit(Procs, {"commit_tx", "commit_any"}, 0)

ConcNext ==
    \/ \E p \in Procs :
          \/ Enter(p)
          \/ BlockHeight(p)
          \/ BaseAccount(p)
          \/ Simulate(p)
          \/ BroadcastTx(p)
          \/ FindTx(p)
    \/ NewBlock
    \/ \E h \in 1..Len(txs) : IncludeTx(h)
    \/ ExternalTx

SpecConc == ConcInit /\ [][ConcNext]_vars

\* One caller runs one operation of the synchronous Daemon, with and
\* without an authz granter
SyncInit ==
    /\ PipeStart({1}, DaemonOps \cup WaitOps, 1)
    /\ FeeIdle
    /\ AccIdle
    /\ lastHeight = MaxHeight
    /\ authzGranter \in {NoGranter, "granter"}
    /\ feeGranter = NoGranter
    /\ envDisableBalance = FALSE
    /\ envDisableManual = FALSE
    /\ balance = 0

SyncNext ==
    \/ \E p \in Procs :
          \/ Enter(p)
          \/ BlockHeight(p)
          \/ BaseAccount(p)
          \/ Simulate(p)
          \/ BroadcastTx(p)
          \/ FindTx(p)
          \/ CodeQuery(p)
          \/ WaitSeconds(p)
          \/ WaitBlocksHeight(p)
          \/ WaitBlocksSpeed(p)
          \/ WaitBlocksPoll(p)
    \/ NewBlock
    \/ \E h \in 1..Len(txs) : IncludeTx(h)
    \/ ExternalTx

SpecSync == SyncInit /\ [][SyncNext]_vars

\* One caller commits while other threads that share the Daemon change its
\* sender
SetterInit ==
    /\ PipeStart({1}, {"commit_any", "commit_tx"}, 1)
    /\ FeeIdle
    /\ AccIdle
    /\ lastHeight = MaxHeight
    /\ authzGranter \in {NoGranter, "granter"}
    /\ feeGranter = NoGranter
    /\ envDisableBalance = FALSE
    /\ envDisableManual = FALSE
    /\ balance = 0

SetterNext ==
    \/ \E p \in Procs :
          \/ Enter(p)
          \/ BlockHeight(p)
          \/ BaseAccount(p)
          \/ Simulate(p)
          \/ BroadcastTx(p)
          \/ FindTx(p)
    \/ \E g \in Granters : AuthzGranter(g)
    \/ \E g \in Granters : FeeGranter(g)
    \/ \E s \in Senders : SetSender(s)
    \/ NewBlock
    \/ \E h \in 1..Len(txs) : IncludeTx(h)

SpecSetters == SetterInit /\ [][SetterNext]_vars

\* One caller waits for 0..MaxAmount blocks from any height of the run
WaitInit ==
    /\ active = {1}
    /\ pc = [p \in Procs |-> "start"]
    /\ \E n \in 0..MaxAmount :
          st = [p \in Procs |->
                  IF p = 1 THEN [InitSt("wait_blocks") EXCEPT !.amount = n]
                  ELSE InitSt("commit_tx")]
    /\ writer = NoProc
    /\ height \in 1..MaxHeight
    /\ chainSeq = InitSeq
    /\ txs = <<>>
    /\ budget = 1
    /\ ext = 0
    /\ signed = {}
    /\ modes = {}
    /\ GasIdle
    /\ lastHeight = MaxHeight

WaitNext ==
    \/ \E p \in Procs :
          \/ Enter(p)
          \/ WaitBlocksHeight(p)
          \/ WaitBlocksSpeed(p)
          \/ WaitBlocksPoll(p)
    \/ NewBlock

SpecWait == WaitInit /\ [][WaitNext]_vars

\* The same caller, with and without a node call that may fail
WaitFairInit ==
    /\ active = {1}
    /\ pc = [p \in Procs |-> "start"]
    /\ \E n \in 0..MaxAmount :
          st = [p \in Procs |->
                  IF p = 1 THEN [InitSt("wait_blocks") EXCEPT !.amount = n]
                  ELSE InitSt("commit_tx")]
    /\ writer = NoProc
    /\ height \in 1..MaxHeight
    /\ chainSeq = InitSeq
    /\ txs = <<>>
    /\ budget \in {0, 1}
    /\ ext = 0
    /\ signed = {}
    /\ modes = {}
    /\ GasIdle
    /\ lastHeight = MaxHeight

\* A step of the future the runtime drives: a sleep that elapses, a node
\* call that is answered
WaitStep ==
    \E p \in Procs :
       \/ Enter(p)
       \/ WaitBlocksHeight(p)
       \/ WaitBlocksSpeed(p)
       \/ WaitBlocksPoll(p)

\* block_on keeps polling the future, and the chain produces its blocks up
\* to the height it stops at (lastHeight)
SpecWaitFair ==
    /\ WaitFairInit
    /\ [][WaitNext]_vars
    /\ WF_vars(WaitStep)
    /\ WF_vars(NewBlock)

\* One caller commits while the chain runs past the timeout height of the
\* body built at the first height
ExpiryInit ==
    /\ PipeStart({1}, {"commit_tx"}, 1)
    /\ GasIdle
    /\ lastHeight = MaxHeight + TIMEOUT_LOOKAHEAD

SpecExpiry == ExpiryInit /\ [][ConcNext]_vars

\* One caller that simulates or commits a message list, with and without
\* an authz granter; for simulate every setting of the two toggles and
\* every balance
SimInit ==
    /\ PipeStartMsgs({1}, {"simulate", "commit_tx"}, MsgLists, 1)
    /\ FeeIdle
    /\ AccIdle
    /\ lastHeight = MaxHeight
    /\ authzGranter \in {NoGranter, "granter"}
    /\ feeGranter = NoGranter
    /\ IF st[1].op = "simulate"
       THEN /\ envDisableBalance \in BOOLEAN
            /\ envDisableManual \in BOOLEAN
            /\ balance \in Balances
       ELSE /\ envDisableBalance = FALSE
            /\ envDisableManual = FALSE
            /\ balance = 6302

SimNext ==
    \/ \E p \in Procs :
          \/ Enter(p)
          \/ BlockHeight(p)
          \/ BaseAccount(p)
          \/ Simulate(p)
          \/ BroadcastTx(p)
          \/ FindTx(p)
          \/ SimulateTx(p)
          \/ BalanceQuery(p)
          \/ ReadLine(p)
    \/ NewBlock
    \/ \E h \in 1..Len(txs) : IncludeTx(h)
    \/ TopUp

SpecSim == SimInit /\ [][SimNext]_vars

\* base_account on every response of the bounded set
AccountInit ==
    /\ PipeStart({}, {"commit_tx"}, 0)
    /\ CfgIdle
    /\ FeeIdle
    /\ lastHeight = MaxHeight
    /\ account \in AccountResponses
    /\ accountOut = NoAccount
    /\ PureIdle

AccountNext == QueryAccount

SpecAccount == AccountInit /\ [][AccountNext]_vars

\* The three coin conversions on every list of the bounded set
CoinsInit ==
    /\ PipeStart({}, {"commit_tx"}, 0)
    /\ CfgIdle
    /\ FeeIdle
    /\ lastHeight = MaxHeight
    /\ account = DefaultAccount
    /\ accountOut = NoAccount
    /\ coinsIn \in CoinLists
    /\ coinsOut = NoCoins
    /\ signKey = DefaultKey
    /\ signDoc = DefaultDoc
    /\ ethFeature = FALSE
    /\ signOut = NoSign

CoinsNext ==
    \/ CallParseCwCoins
    \/ CallBootParseCwCoins
    \/ CallProtoParseCwCoins

SpecCoins == CoinsInit /\ [][CoinsNext]_vars

\* sign with every key and document of the bounded sets, in a build with
\* and in a build without the feature "eth"
SignInit ==
    /\ PipeStart({}, {"commit_tx"}, 0)
    /\ CfgIdle
    /\ FeeIdle
    /\ lastHeight = MaxHeight
    /\ account = DefaultAccount
    /\ accountOut = NoAccount
    /\ coinsIn = <<>>
    /\ coinsOut = NoCoins
    /\ signKey \in PrivateKeys
    /\ signDoc \in SignDocs
    /\ ethFeature \in BOOLEAN
    /\ signOut = NoSign

SpecSign == SignInit /\ [][CallSign]_vars

\* get_fee_from_gas on every input and configuration of the bounded sets
GasInit ==
    /\ PipeStart({}, {"commit_tx"}, 0)
    /\ lastHeight = MaxHeight
    /\ gasIn \in GasInputs
    /\ envGasBuffer \in BufferOverrides
    /\ envMinGas \in MinGasOverrides
    /\ gasOut = -1
    /\ CfgIdle
    /\ AccIdle
    /\ feeTokens \in FeeTokenConfigs
    /\ feeOut = NoFee

GasNext == ComputeFee

SpecGas == GasInit /\ [][GasNext]_vars

----------------------------------------------------------------------------
(* Properties *)

Running(p) == p \in active /\ pc[p] \notin {"start", "done"}

Ended(p) == pc[p] = "done"

\* C1 as stated: two concurrent submissions through one daemon are
\* serialized, so that no two of them sign a transaction with the same
\* sequence number.
C1_SubmissionsSerialized ==
    \A x, y \in signed : x[2] = y[2] => x[1] = y[1]

\* C1 amended: only Stargate::commit_any takes the sender's write guard, so
\* two commit_any calls on one Daemon never run at the same time and a
\* running commit_any holds the guard; other operations take no lock.
C1_CommitAnySerialized ==
    /\ \A p, q \in Procs :
          (p # q /\ st[p].op = "commit_any" /\ st[q].op = "commit_any")
             => ~(Running(p) /\ Running(q))
    /\ \A p \in Procs : (st[p].op = "commit_any" /\ Running(p)) => HoldsWrite(p)

C1_Witness ==
    \E p, q \in Procs :
       /\ p # q
       /\ st[p].op = "commit_any" /\ st[q].op = "commit_any"
       /\ Ended(q) /\ st[q].res.kind = "ok"
       /\ pc[p] = "broadcast"
       /\ st[p].seq # txs[st[q].hash].seq

\* C2: a response is returned only after the broadcast returned a hash and
\* find_tx reported that very transaction included in a block; the result
\* carries the hash, the inclusion height and the result code.
C2_ConfirmedBeforeReturn ==
    \A p \in Procs :
       st[p].res.kind = "ok" =>
          LET h == st[p].res.hash
          IN  /\ h \in 1..Len(txs)
              /\ h = st[p].hash
              /\ txs[h].by = p
              /\ txs[h].status = "included"
              /\ st[p].res.height = txs[h].height
              /\ st[p].res.code = txs[h].code
              /\ st[p].polls >= 1

C2_Witness ==
    \E p \in Procs :
       /\ Ended(p) /\ st[p].op = "commit_tx"
       /\ st[p].res.kind = "ok" /\ st[p].res.code = 0
       /\ st[p].polls = 2
       /\ st[p].res.height = txs[st[p].res.hash].height
       /\ st[p].res.height > 1

\* C3 as stated: every broadcast request uses the asynchronous mode.
C3_AsyncModeOnly == modes \subseteq {"Async"}

\* C3 amended: every broadcast request uses BroadcastMode::Sync (the node
\* answers after CheckTx, with the code and log the retry strategies read).
C3_SyncModeOnly == modes \subseteq {"Sync"}

C3_Witness ==
    /\ modes = {"Sync"}
    /\ \E p \in Procs : st[p].bcasts >= 2

\* C4: a rejection whose log matches the account-sequence pattern is
\* handled by the sequence-mismatch strategy, which is consulted first.
C4_SequenceStrategyFirst ==
    \A p \in Procs :
       HasSeqPattern(st[p].log) => st[p].applied = "account_sequence"

C6_FeeRetryOnce ==
    \A p \in Procs :
       /\ st[p].feeRetries <= 1
       /\ st[p].feeRejects <= 2
       /\ st[p].feeRejects >= 1 => st[p].feeRetries = 1
       /\ st[p].feeRejects = 2 =>
             /\ Ended(p)
             /\ st[p].res.kind = "tx_failed"
             /\ HasFeePattern(st[p].res.log)
       /\ (Ended(p) /\ st[p].res.kind = "tx_failed" /\ st[p].res.log = "fee")
             => st[p].feeRejects = 2

C6_Witness ==
    \E p \in Procs :
       /\ Ended(p) /\ st[p].feeRejects = 2
       /\ st[p].res.log = "fee"
       /\ st[p].bcasts = 2

\* C7: a rejection no strategy matches ends the call at once with an error
\* carrying the rejection's code and log; find_tx is never called.
C7_UnmatchedRejectionFails ==
    \A p \in Procs :
       st[p].log = "other" =>
          /\ Ended(p)
          /\ st[p].res = Err("tx_failed", RejectCode("other"), "other")
          /\ st[p].polls = 0
          /\ st[p].hash = 0

C7_Witness ==
    \E p \in Procs :
       /\ Ended(p) /\ st[p].log = "other"
       /\ st[p].res.kind = "tx_failed"
       /\ st[p].bcasts = 2 /\ st[p].seqRetries = 1

C9_EveryFaultSurfaces ==
    \A p \in Procs :
       st[p].failed # "none" =>
          /\ Ended(p)
          /\ st[p].res = Err("fault", 0, st[p].failed)

\* C9 amended: every failed node call ends the operation with that error,
\* except the code-info query of upload, whose failure is not returned:
\* upload keeps the confirmed response and waits for the next block.
C9_FaultsSurfaceExceptCodeInfo ==
    \A p \in Procs :
       /\ st[p].failed \notin {"none", "code_info"} =>
             /\ Ended(p)
             /\ st[p].res = Err("fault", 0, st[p].failed)
       /\ st[p].failed = "code_info" =>
             /\ st[p].op = "upload"
             /\ st[p].res.kind = "ok"
             /\ pc[p] \in {"wb_height", "wb_speed", "wb_poll", "code_query", "done"}

C9_Witness ==
    \E p \in Procs :
       /\ st[p].failed = "code_info"
       /\ pc[p] = "code_query"
       /\ st[p].last >= st[p].end
       /\ st[p].end > 0

NoOverrides == envGasBuffer = 0 /\ envMinGas = 0

RoundHalfUp(num, den) == (2 * num + den) \div (2 * den)

\* C10 as stated: without overrides the returned gas is round(g * 1.4)
\* below the threshold and round(g * 1.3) from the threshold on.
C10_RoundedBuffer ==
    (gasOut # -1 /\ NoOverrides) =>
       gasOut = IF gasIn < BUFFER_THRESHOLD
                THEN RoundHalfUp(14 * gasIn, 10)
                ELSE RoundHalfUp(13 * gasIn, 10)

\* C10 amended: without overrides the returned gas is the f64 product cut
\* off toward zero, not rounded: floor(g * 1.3) from the threshold on (the
\* threshold included); below it floor(g * 1.4), or one less when g * 1.4
\* is an integer (5 divides g) that the f64 product falls short of.
C10_TruncatedBuffer ==
    (gasOut # -1 /\ NoOverrides) =>
       IF gasIn < BUFFER_THRESHOLD
       THEN /\ gasOut \in {(14 * gasIn) \div 10, (14 * gasIn) \div 10 - 1}
            /\ gasOut >= gasIn
            /\ gasIn % 5 # 0 => gasOut = (14 * gasIn) \div 10
       ELSE gasOut = (13 * gasIn) \div 10

C10_Witness ==
    /\ NoOverrides
    /\ gasIn = BUFFER_THRESHOLD
    /\ gasOut = 260000

\* C11 as stated: under one configuration the returned gas never decreases
\* when the raw estimate grows, the 200 000 threshold included.
C11_MonotonicEverywhere ==
    gasOut # -1 =>
       \A g2 \in GasInputs :
          gasIn <= g2 => gasOut <= GetFeeFromGas(g2, envGasBuffer, envMinGas)

SameMultiplier(g1, g2) ==
    \/ envGasBuffer # 0
    \/ (g1 < BUFFER_THRESHOLD) = (g2 < BUFFER_THRESHOLD)

\* C11 amended: the returned gas never decreases when the raw estimate
\* grows and both estimates take the same multiplier (both below the
\* threshold, both at or above it, or a gas-buffer override is set).  From
\* just below the threshold to the threshold the multiplier drops from 1.4
\* to 1.3 and the returned gas drops with it.
C11_MonotonicPerMultiplier ==
    gasOut # -1 =>
       /\ \A g2 \in GasInputs :
             (gasIn <= g2 /\ SameMultiplier(gasIn, g2))
                => gasOut <= GetFeeFromGas(g2, envGasBuffer, envMinGas)
       /\ (NoOverrides /\ gasIn = BUFFER_THRESHOLD - 1)
             => gasOut > GetFeeFromGas(BUFFER_THRESHOLD, envGasBuffer, envMinGas)

C11_Witness ==
    /\ gasOut # -1
    /\ NoOverrides
    /\ gasIn >= BUFFER_THRESHOLD
    /\ \E g2 \in GasInputs :
          g2 > gasIn /\ GetFeeFromGas(g2, envGasBuffer, envMinGas) > gasOut

\* C12: with a min_gas override m the returned gas is max(m, buffered gas):
\* never below m, equal to m when m exceeds the buffered value, and the fee
\* amount is the price applied to the floored gas.
C12_MinGasFloor ==
    (gasOut # -1 /\ envMinGas # 0) =>
       LET buffered == GetFeeFromGas(gasIn, envGasBuffer, 0)
       IN  /\ gasOut = Max(envMinGas, buffered)
           /\ gasOut >= envMinGas
           /\ envMinGas > buffered => gasOut = envMinGas
           /\ feeOut.amount >= MulPrice(10 * gasOut, GasPrice(feeTokens) + 1)
           /\ envMinGas > buffered =>
                 feeOut.amount = MulPrice(10 * envMinGas,
                                          GasPrice(feeTokens) + 1)

C12_Witness ==
    /\ gasOut = envMinGas
    /\ envMinGas > GetFeeFromGas(gasIn, envGasBuffer, 0)
    /\ gasIn >= BUFFER_THRESHOLD
    /\ feeOut.amount > MulPrice(10 * GetFeeFromGas(gasIn, envGasBuffer, 0),
                                GasPrice(feeTokens) + 1)

\* C13 as stated: the fee amount is the returned gas times
\* (max(fixed minimum price, average price) + 0.00001), in the denom of the
\* first fee token.
C13_FeeFromReturnedGas ==
    gasOut # -1 =>
       /\ feeOut.denom = feeTokens[1].denom
       /\ feeOut.amount =
             MulPrice(10 * gasOut,
                      Max(feeTokens[1].fixed_min_gas_price,
                          feeTokens[1].average_gas_price) + 1)

\* C13 amended: the fee amount is the buffered gas before it is cut to an
\* integer, times (max(fixed minimum price, average price) + 0.00001), cut
\* to an integer: at least the price applied to the returned gas, at most
\* the price applied to the returned gas plus one, and equal to the former
\* whenever the buffered gas is a whole number (150 000 gives 210 000).
C13_FeeFromUnroundedGas ==
    gasOut # -1 =>
       LET price == Max(feeTokens[1].fixed_min_gas_price,
                        feeTokens[1].average_gas_price) + 1
           tenths == GasExpected(gasIn, envGasBuffer, envMinGas)
       IN  /\ feeOut.denom = feeTokens[1].denom
           /\ feeOut.amount >= MulPrice(10 * gasOut, price)
           /\ feeOut.amount <= MulPrice(10 * (gasOut + 1), price)
           /\ tenths = 10 * gasOut =>
                 feeOut.amount = MulPrice(10 * gasOut, price)

C13_Witness ==
    /\ gasOut # -1
    /\ NoOverrides
    /\ gasIn = BUFFER_THRESHOLD - 1
    /\ Len(feeTokens) > 1
    /\ feeOut.denom = "uother"
    /\ feeOut.amount = MulPrice(10 * gasOut, 100001) + 1

Simulating(p) == p \in active /\ st[p].op = "simulate"

\* C14 as stated: with the balance below the fee, assert_wallet_balance
\* fails at once and reads no operator input when disable_manual_interaction
\* is set, and prompts the operator before it fails when it is not set.
C14_ToggleDisablesPrompt ==
    \A p \in Procs :
       Simulating(p) =>
          /\ envDisableManual => (pc[p] # "stdin" /\ st[p].reads = 0)
          /\ (~envDisableManual /\ Ended(p)
                 /\ st[p].res.kind = "not_enough_balance")
                => st[p].reads > 0

\* C15: with disable_wallet_balance_assertion set simulate queries no
\* balance and never fails with NotEnoughBalance; without it simulate
\* returns Ok((gas, fee)) only after a balance query that showed a balance
\* of at least the computed fee.
C15_BalanceAssertedUnlessDisabled ==
    \A p \in Procs :
       Simulating(p) =>
          /\ envDisableBalance =>
                /\ st[p].queries = 0
                /\ pc[p] \notin {"balance", "stdin"}
                /\ st[p].res.kind # "not_enough_balance"
          /\ (~envDisableBalance /\ Ended(p) /\ st[p].res.kind = "ok") =>
                /\ st[p].queries > 0
                /\ st[p].current >= st[p].fee.amount
                /\ st[p].fee.amount >= 0
                /\ st[p].fee.denom = feeTokens[1].denom

C15_Witness ==
    /\ Simulating(1)
    /\ ~envDisableBalance
    /\ Ended(1)
    /\ st[1].res.kind = "ok"
    /\ st[1].queries > 1
    /\ st[1].fee.amount = 6302

IsMsgExecOf(body, msgs) ==
    /\ Len(body) = 1
    /\ body[1].type_url = "/cosmos.authz.v1beta1.MsgExec"
    /\ body[1].grantee = SignerAddress
    /\ body[1].msgs = msgs

\* C16: with an authz granter configured, the messages commit_tx_any signs
\* and broadcasts are exactly one MsgExec whose grantee is the signer's own
\* address and whose inner messages are the caller's, in their order;
\* without a granter they are the caller's messages unchanged.
C16_AuthzWrapsBroadcast ==
    /\ \A h \in 1..Len(txs) :
          IF authzGranter # NoGranter
          THEN IsMsgExecOf(txs[h].body, st[txs[h].by].msgs)
          ELSE txs[h].body = st[txs[h].by].msgs
    /\ \A p \in Procs :
          (p \in active /\ st[p].op # "simulate"
              /\ pc[p] \in {"account", "simulate", "broadcast"}) =>
             IF authzGranter # NoGranter
             THEN IsMsgExecOf(st[p].body, st[p].msgs)
             ELSE st[p].body = st[p].msgs

C16_Witness ==
    /\ authzGranter # NoGranter
    /\ Len(txs) = 1
    /\ txs[1].status = "included"
    /\ txs[1].body[1].msgs = <<Msg("b"), Msg("a")>>

\* C17 as stated: with an authz granter configured, every body the sender
\* hands to the node's simulation, in simulate as in commit_tx_any, is the
\* MsgExec form of the caller's messages.
C17_SimulationsAreWrapped ==
    \A p \in Procs :
       (p \in active /\ authzGranter # NoGranter /\ st[p].simBody # <<>>) =>
          IsMsgExecOf(st[p].simBody, st[p].msgs)

\* C18 as stated: every body carries the timeout height (height read when it
\* was built) + 10, and no retry broadcasts a body whose timeout height the
\* chain has passed: a retry builds the body anew from the current height.
C18_NoStaleResubmission ==
    \A p \in Procs :
       (p \in active /\ st[p].body # <<>>) =>
          /\ st[p].timeout = st[p].builtAt + 10
          /\ ~st[p].resentExpired

Waiting(p) == p \in active /\ st[p].op = "wait_blocks"

\* The sleeps and height queries of wait_blocks(n) so far: one sleep of n
\* block times, then rounds of one sleep of one block time and one height
\* query, every query but the last one below the target
WaitsAlternate(w, n, target) ==
    /\ w[1] = Sleep(n)
    /\ Len(w) % 2 = 1
    /\ \A i \in 1..((Len(w) - 1) \div 2) :
          /\ w[2 * i] = Sleep(1)
          /\ w[2 * i + 1].ev = "height"
          /\ 2 * i + 1 < Len(w) => w[2 * i + 1].n < target

\* C19: wait_blocks(n) returns Ok only after a height query returned at
\* least (height read at entry) + n; it sleeps n average block times once,
\* then alternates a sleep of one average block time with a height query
\* until the target is reached.
C19_WaitBlocksReachesTarget ==
    \A p \in Procs :
       Waiting(p) =>
          LET w      == st[p].waits
              n      == st[p].amount
              target == st[p].entry + n
          IN  /\ w # <<>> => WaitsAlternate(w, n, target)
              /\ (Ended(p) /\ st[p].res.kind = "ok") =>
                    /\ w # <<>>
                    /\ IF Len(w) = 1 THEN n = 0
                       ELSE w[Len(w)].n >= target

C19_Witness ==
    /\ Waiting(1)
    /\ Ended(1)
    /\ st[1].res.kind = "ok"
    /\ st[1].amount = 2
    /\ Len(st[1].waits) >= 5
    /\ st[1].waits[Len(st[1].waits)].n = st[1].entry + 2

\* C20: base_account tries the standard base account, then the periodic
\* vesting wrapper, then the ethereum-style wrapper, returns the base
\* record the first one that decodes holds, and fails with "Unknown account
\* type" when none decodes.
C20_FirstDecodingWins ==
    (accountOut.kind \notin {"none", "fault"} /\ account.present) =>
       IF account.base.decodes
       THEN accountOut = [kind |-> "ok", base |-> account.base.base]
       ELSE IF account.vesting.decodes
       THEN account.vesting.base # NoRecord =>
               accountOut = [kind |-> "ok", base |-> account.vesting.base]
       ELSE IF account.eth.decodes
       THEN account.eth.base # NoRecord =>
               accountOut = [kind |-> "ok", base |-> account.eth.base]
       ELSE accountOut = [kind |-> "unknown_account_type", base |-> NoRecord]

C20_Witness ==
    /\ accountOut.kind = "ok"
    /\ ~account.base.decodes
    /\ account.vesting.decodes
    /\ account.eth.decodes
    /\ account.eth.base # NoRecord
    /\ account.eth.base # account.vesting.base

\* C21: an operation of the synchronous Daemon returns exactly what the
\* operation of DaemonAsync it runs to completion returned, and returns
\* nothing before that one has.
C21_SyncReturnsAsyncResult ==
    \A p \in Procs :
       p \in active =>
          /\ Ended(p) => (st[p].out = st[p].res /\ st[p].res # NoRes)
          /\ ~Ended(p) => st[p].out = NoRes

C21_Witness ==
    /\ Ended(1)
    /\ st[1].op = "next_block"
    /\ st[1].out.kind = "fault"
    /\ st[1].out = st[1].res

\* C25: every transaction-building operation (upload, instantiate,
\* instantiate2, execute, migrate) puts the message-sender identity in the
\* sender field of its message: the authz granter when one is configured,
\* otherwise the signer's own address.
C25_SenderFieldIsMessageSender ==
    \A p \in Procs :
       (p \in active /\ st[p].op \in DaemonOps /\ pc[p] # "start") =>
          \A i \in 1..Len(st[p].msgs) : st[p].msgs[i].sender = MessageSender

\* C22: with a gas_buffer override b configured, the gas get_fee_from_gas
\* returns is the integer part of g * b for every estimate g, below and at
\* or above BUFFER_THRESHOLD alike, raised to min_gas when a minimum is
\* configured and larger.
C22_OverrideScalesEveryEstimate ==
    (gasOut # -1 /\ envGasBuffer # 0) =>
       LET twice == gasIn * envGasBuffer
       IN  IF envMinGas # 0 /\ 2 * envMinGas > twice
           THEN gasOut = envMinGas
           ELSE 2 * gasOut <= twice /\ twice < 2 * (gasOut + 1)

C22_Witness ==
    /\ gasOut # -1
    /\ envGasBuffer = 3
    /\ gasIn > BUFFER_THRESHOLD
    /\ envMinGas = 270000
    /\ gasOut > envMinGas
    /\ gasOut # MulGasBuffer(gasIn)

\* The call of p has reached the balance query of assert_wallet_balance
Asserting(p) ==
    /\ Simulating(p)
    /\ \/ pc[p] \in {"balance", "stdin"}
       \/ st[p].queries > 0
       \/ (Ended(p) /\ st[p].failed = "balance")

NoLetterY(line) == \A i \in 1..Len(line) : line[i] # "y"

NoLetterYOfEitherCase(line) ==
    \A i \in 1..Len(line) : line[i] \notin {"y", "Y"}

\* C23 as stated: each confirmation causes exactly one fresh balance query;
\* an answer without a 'y' ends the call at once with NotEnoughBalance
\* carrying the balance last queried; Ok is returned only on a queried
\* balance of at least the fee; and the call ends in no other way than
\* with a sufficient balance or the operator declining.
C23_EndsOnlyWhenSufficientOrDeclined ==
    \A p \in Procs :
       Asserting(p) =>
          /\ pc[p] = "stdin" => st[p].queries = st[p].confirms + 1
          /\ (st[p].reads > 0 /\ NoLetterY(st[p].line)) =>
                /\ Ended(p)
                /\ st[p].res = NotEnoughBalance(st[p].fee, st[p].current)
          /\ (Ended(p) /\ st[p].res.kind = "ok") =>
                st[p].current >= st[p].fee.amount
          /\ Ended(p) =>
                \/ st[p].res.kind = "ok"
                \/ /\ st[p].res.kind = "not_enough_balance"
                   /\ (envDisableManual => st[p].reads > 0)

\* C23, amended: every answer with a 'y' or 'Y' in it is followed by exactly
\* one fresh balance query; an answer without one (the empty line at the
\* end of the input included) ends the call at once with NotEnoughBalance
\* carrying the balance last queried; Ok is returned only on a queried
\* balance of at least the fee; and besides these two ends the call ends
\* with the error of a balance query or of a read of stdin that failed.
C23_PromptLoop ==
    \A p \in Procs :
       Asserting(p) =>
          /\ pc[p] = "stdin" =>
                /\ st[p].queries = st[p].confirms + 1
                /\ st[p].reads = st[p].confirms
                /\ st[p].current < st[p].fee.amount
          /\ pc[p] = "balance" =>
                /\ st[p].queries = st[p].confirms
                /\ st[p].reads = st[p].confirms
          /\ (st[p].reads > 0 /\ NoLetterYOfEitherCase(st[p].line)) =>
                /\ Ended(p)
                /\ st[p].res = NotEnoughBalance(st[p].fee, st[p].current)
                /\ st[p].queries = st[p].confirms + 1
          /\ (st[p].reads > 0 /\ ~NoLetterYOfEitherCase(st[p].line)) =>
                st[p].res.kind # "not_enough_balance"
          /\ (Ended(p) /\ st[p].res.kind = "ok") =>
                /\ st[p].current >= st[p].fee.amount
                /\ st[p].queries = st[p].confirms + 1
          /\ Ended(p) =>
                \/ st[p].res.kind = "ok"
                \/ /\ st[p].res.kind = "not_enough_balance"
                   /\ st[p].res.current = st[p].current
                   /\ st[p].current < st[p].fee.amount
                   /\ (envDisableManual => st[p].reads = st[p].confirms + 1)
                \/ /\ st[p].res.kind = "fault"
                   /\ st[p].failed \in {"balance", "stdin"}

\* The operator confirms with "Yes" after a top-up that does not cover the
\* fee, and declines after the second query
C23_Witness ==
    /\ Asserting(1)
    /\ Ended(1)
    /\ st[1].res.kind = "not_enough_balance"
    /\ st[1].confirms = 1
    /\ st[1].queries = 2
    /\ st[1].line = <<>>
    /\ st[1].res.current = 4
    /\ st[1].fee.amount = 6302
    /\ balance = 6302

Uploading(p) == p \in active /\ st[p].op = "upload"

\* The store-code transaction of p is in a block and find_tx has returned it
StoreCodeConfirmed(p) ==
    /\ st[p].found
    /\ st[p].hash \in 1..Len(txs)
    /\ txs[st[p].hash].by = p
    /\ txs[st[p].hash].status = "included"
    /\ txs[st[p].hash].code = 0
    /\ txs[st[p].hash].body[1].type_url \in
          {"/cosmwasm.wasm.v1.MsgStoreCode", "/cosmos.authz.v1beta1.MsgExec"}

\* C24: upload returns Ok only after its store-code transaction was
\* committed and confirmed and a code-info query has succeeded; every
\* code-info query that failed is followed by one next_block, a wait until
\* the height has grown by one, before the query is made again.
C24_UploadOkAfterCodeInfo ==
    \A p \in Procs :
       Uploading(p) =>
          /\ st[p].codeQueries > 0 => StoreCodeConfirmed(p)
          /\ pc[p] = "code_query" =>
                /\ StoreCodeConfirmed(p)
                /\ st[p].codeQueries = st[p].codeFails
                /\ st[p].nextBlocks = st[p].codeFails
                /\ st[p].codeFails > 0 =>
                      /\ st[p].waits[1] = Sleep(1)
                      /\ st[p].waits[Len(st[p].waits)].ev = "height"
                      /\ st[p].waits[Len(st[p].waits)].n >= st[p].entry + 1
          /\ pc[p] \in {"wb_height", "wb_speed", "wb_poll"} =>
                /\ st[p].codeQueries = st[p].codeFails
                /\ st[p].nextBlocks = st[p].codeFails - 1
          /\ (Ended(p) /\ st[p].res.kind = "ok") =>
                /\ StoreCodeConfirmed(p)
                /\ st[p].res.hash = st[p].hash
                /\ st[p].codeQueries = st[p].codeFails + 1
                /\ st[p].nextBlocks = st[p].codeFails

C24_Witness ==
    /\ Uploading(1)
    /\ Ended(1)
    /\ st[1].res.kind = "ok"
    /\ st[1].codeFails = 1
    /\ st[1].codeQueries = 2
    /\ st[1].nextBlocks = 1
    /\ Len(st[1].waits) >= 3

InWaitBlocks(p) == Waiting(p) /\ pc[p] \in {"wb_speed", "wb_poll"}

\* C26: wait_blocks(n) returns Ok when the chain reaches the height read at
\* entry + n and no node call fails; when the chain stops below that height
\* and no node call fails it never returns, however often it has polled;
\* it returns an error only when a node call failed, in the loop only the
\* height query; and no number of rounds disables the next round.
C26_WaitBlocksReturnsWhenTargetReached ==
    /\ [](\A p \in Procs :
            (Waiting(p) /\ Ended(p)) =>
               \/ /\ st[p].res.kind = "ok"
                  /\ height >= st[p].entry + st[p].amount
               \/ /\ st[p].res.kind = "fault"
                  /\ st[p].failed \in {"wb_block_height", "average_block_speed"}
                  /\ st[p].waits # <<>> => st[p].failed = "wb_block_height")
    /\ \A p \in Procs :
          (InWaitBlocks(p) /\ budget = 0
              /\ st[p].entry + st[p].amount <= lastHeight)
            ~> (Ended(p) /\ st[p].res.kind = "ok")
    /\ \A p \in Procs :
          []((InWaitBlocks(p) /\ budget = 0
                 /\ st[p].entry + st[p].amount > lastHeight)
               => [](~Ended(p)))
    /\ [](\A p \in Procs :
            (Waiting(p) /\ pc[p] = "wb_poll") => ENABLED WaitBlocksPoll(p))

\* more rounds polled than the history keeps, and Ok afterwards
C26_Witness ==
    /\ Waiting(1)
    /\ Ended(1)
    /\ st[1].res.kind = "ok"
    /\ budget = 0
    /\ Len(st[1].waits) = 1 + 2 * MaxRounds
    /\ st[1].waits[3].n = st[1].waits[1 + 2 * MaxRounds].n - 1

\* C27: from the moment commit_any has taken the write guard until it
\* returns, the sender's options are those it started with: no set_sender,
\* authz_granter or fee_granter takes effect between its build, sign,
\* broadcast and confirm steps, and the body it built is the one those
\* options give.
C27_CommitAnyExcludesSetters ==
    \A p \in Procs :
       (p \in active /\ st[p].op = "commit_any" /\ Running(p)) =>
          /\ HoldsWrite(p)
          /\ SenderOptions = st[p].entrySender
          /\ st[p].body # <<>> =>
                IF st[p].entrySender.authz_granter # NoGranter
                THEN IsMsgExecOf(st[p].body, st[p].msgs)
                ELSE st[p].body = st[p].msgs

\* a submission under way with options that setters had changed before it
\* started
C27_Witness ==
    /\ st[1].op = "commit_any"
    /\ pc[1] = "find_tx"
    /\ HoldsWrite(1)
    /\ st[1].entrySender = [authz_granter |-> "other", fee_granter |-> "granter"]
    /\ SenderOptions = st[1].entrySender

SameCoins(out, in) ==
    /\ Len(out) = Len(in)
    /\ \A i \in 1..Len(in) :
          /\ out[i].denom = in[i].denom
          /\ out[i].amount = in[i].amount

\* C28: parse_cw_coins, of cw-orch-daemon and of boot-core, answers a list
\* of the input's length and order whose coins have the denoms and the
\* integer amounts of the input's, and fails as a whole when a denom is
\* invalid.
C28_ParseCwCoinsKeepsCoins ==
    coinsOut.by \in {"daemon", "boot"} =>
       IF \A i \in 1..Len(coinsIn) : DenomFromStr(coinsIn[i].denom).kind = "ok"
       THEN coinsOut.kind = "ok" /\ SameCoins(coinsOut.coins, coinsIn)
       ELSE coinsOut.kind = "err" /\ coinsOut.coins = <<>>

\* C29 as stated: sign uses the ethereum-style scheme exactly for a key of
\* ETHEREUM_COIN_TYPE and secp256k1 for every other coin type, and every
\* call returns a signed transaction or an error.
C29_SignReturnsTxOrError ==
    signOut # NoSign =>
       /\ signOut.kind \in {"signed", "error"}
       /\ signOut.doc = signDoc
       /\ signOut.scheme = IF signKey.coin_type = ETHEREUM_COIN_TYPE
                           THEN "injective" ELSE "secp256k1"

\* C29, amended: sign chooses by the coin type alone; for a coin type other
\* than ETHEREUM_COIN_TYPE it returns the secp256k1 signature of the
\* document or the error of signing; for ETHEREUM_COIN_TYPE it returns the
\* ethereum-style signature or its error in a build with the feature "eth",
\* and panics, returning nothing, in a build without it.
C29_SignDispatchesByCoinType ==
    signOut # NoSign =>
       /\ signOut.doc = signDoc
       /\ IF signKey.coin_type = ETHEREUM_COIN_TYPE
          THEN IF ethFeature
               THEN /\ signOut.kind \in {"signed", "error"}
                    /\ signOut.scheme = "injective"
               ELSE signOut.kind = "panic"
          ELSE /\ signOut.kind \in {"signed", "error"}
               /\ signOut.scheme = "secp256k1"

\* a key of an injective chain that carries the cosmos coin type is signed
\* for with secp256k1
C29_Witness ==
    /\ signOut.kind = "signed"
    /\ signOut.scheme = "secp256k1"
    /\ signKey = [coin_type |-> 118, prefix |-> "inj"]
    /\ ethFeature

====
